---- MODULE Spec2Model ----
(***************************************************************************)
(* Storage core of Proyecto_BDII: the sequential-file index (regions D and *)
(* A chained by next_ptr), the slotted-page heap file, and the executor    *)
(* that keeps them together.                                               *)
(*                                                                         *)
(*   Spec      the index alone: insert, delete_key, reorganize             *)
(*   SpecHeap  the heap file alone: insert, delete                         *)
(*   SpecExec  the executor over a heap and one index on the column id     *)
(*   SpecExecKey  the same with every delete on the indexed column         *)
(*   SpecCodec the row codec alone: pack_row, unpack_row, one row at a time *)
(***************************************************************************)
EXTENDS Integers, Sequences, FiniteSets, TLC

VARIABLES
    main_count,   \* index header: number of entries of D
    aux_count,    \* index header: number of entries of A
    head_ptr,     \* index header: pointer to the first entry of the logical list
    entries,      \* index file after the header: D[1..m] then A[1..a]
    inserted,     \* history: per key, the rids inserted and not deleted, latest first
    pages,        \* heap file: its pages, each header, slot directory and data area
    held,         \* history: the RIDs returned by a heap insert and not deleted since
    codec         \* a row on its way through the codec: schema, row, blob, result

idx_vars == <<main_count, aux_count, head_ptr, entries, inserted>>

heap_vars == <<pages, held>>

codec_vars == <<codec>>

vars == <<main_count, aux_count, head_ptr, entries, inserted, pages, held, codec>>

\* ------------------------------------------------------------ bounds

\* keys are 1..MaxKey; an index insert needs main_count + aux_count < MaxEntries
MaxKey == 2
MaxEntries == 3

\* a heap insert needs the file to stay within MaxPages pages; the texts of its
\* rows are ShortLen and LongLen bytes long (a page takes three short rows, or a
\* short and a long one). Driven by the executor the file stays within
\* ExecMaxPages pages and the texts are ExecLen bytes long (two rows to a page).
\* The codec alone is given VARCHAR(0) .. VARCHAR(MaxVar) and texts of up to
\* MaxVar + 1 bytes.
MaxPages == 2
ExecMaxPages == 1
ExecLen == 1800
MaxVar == 2
ShortLen == 1300
LongLen == 2500

Keys == 1..MaxKey
\* the rids handed to the index when it is driven alone: two, to tell entries of one key apart
IdxRids == {[page |-> 0, slot |-> 0], [page |-> 0, slot |-> 1]}
None == [page |-> -1, slot |-> -1]

\* ------------------------------------------------- pointers (lowlevel.py)

DELETED == -1

dptr(i) == i

aptr(i) == -(i + 1)

is_end(p) == p = 0

\* loc raises ValueError on 0 and on DELETED
loc_raises(p) == p = 0 \/ p = DELETED

loc(p) == IF p > 0 THEN [is_aux |-> FALSE, idx |-> p] ELSE [is_aux |-> TRUE, idx |-> -p - 1]

SFEntry(key, rid, next_ptr) == [key |-> key, rid |-> rid, next_ptr |-> next_ptr]

deleted(e) == e.next_ptr = DELETED

\* The index file as the code reads it: the header and the entries behind it.
Index == [m |-> main_count, a |-> aux_count, h |-> head_ptr, f |-> entries, err |-> ""]

\* entry position (1-based, after the header) of d(i) and of a(i) for base = main_count
_off_d(i) == i

_off_a(i, base) == base + i

pos_of(is_aux, idx, base) == IF is_aux THEN _off_a(idx, base) ELSE _off_d(idx)

\* The file is never truncated: behind the main_count + aux_count entries the
\* header counts lie the bytes of earlier entries. The model keeps the counted
\* entries only, and a read behind them (or before d(1)) is the outcome "stale";
\* NoStaleRead shows that no operation ever makes one.
read_stale(f, is_aux, idx, base) == pos_of(is_aux, idx, base) \notin 1..Len(f)

_read(f, is_aux, idx, base) == f[pos_of(is_aux, idx, base)]

\* a write at the end of the file extends it
_write(f, is_aux, idx, e, base) ==
    LET p == pos_of(is_aux, idx, base)
    IN IF p <= Len(f) THEN [f EXCEPT ![p] = e] ELSE Append(f, e)

\* can the entry behind pointer p be read at all
ptr_raises(f, p, base) == loc_raises(p) \/ read_stale(f, loc(p).is_aux, loc(p).idx, base)

ptr_err(f, p, base) == IF loc_raises(p) THEN "ValueError" ELSE "stale"

at(f, p, base) == _read(f, loc(p).is_aux, loc(p).idx, base)

\* ------------------------------------------------------ search in D

\* mutant: the search goes left only on a key greater than the one sought
RECURSIVE lb_loop_upper(_, _, _, _, _)
lb_loop_upper(f, key, l, r, ans) ==
    IF l <= r
    THEN LET mid == (l + r) \div 2
         IN IF f[mid].key > key
            THEN lb_loop_upper(f, key, l, mid - 1, mid)
            ELSE lb_loop_upper(f, key, mid + 1, r, ans)
    ELSE ans

RECURSIVE lb_loop(_, _, _, _, _)
lb_loop(f, key, l, r, ans) ==
    IF l <= r
    THEN LET mid == (l + r) \div 2
         IN IF f[mid].key >= key
            THEN lb_loop(f, key, l, mid - 1, mid)
            ELSE lb_loop(f, key, mid + 1, r, ans)
    ELSE ans

_lb(f, m, key) == lb_loop(f, key, 1, m, m + 1)

\* the backward scan over tombstones from j: the live D-predecessor, 0 if none
RECURSIVE live_pred(_, _)
live_pred(f, j) ==
    IF j >= 1 /\ deleted(f[j]) THEN live_pred(f, j - 1) ELSE j

Min(x, y) == IF x <= y THEN x ELSE y

Max(x, y) == IF x >= y THEN x ELSE y

\* ------------------------------------------------------ maintenance

RECURSIVE log2_floor(_)
log2_floor(n) == IF n < 2 THEN 0 ELSE 1 + log2_floor(n \div 2)

\* the walk of reorganize: the live entries in chain order, cut off after cap nodes
RECURSIVE reorg_walk(_, _, _, _, _, _)
reorg_walk(f, base, cur, seen, cap, out) ==
    IF is_end(cur) \/ seen >= cap THEN [out |-> out, err |-> "", capped |-> ~is_end(cur)]
    ELSE IF ptr_raises(f, cur, base) THEN [out |-> out, err |-> ptr_err(f, cur, base), capped |-> FALSE]
    ELSE LET e == at(f, cur, base)
         IN reorg_walk(f, base, e.next_ptr, seen + 1, cap,
                       IF deleted(e) THEN out ELSE Append(out, e))

\* mutant: D is rewritten without rechaining, every entry keeps its old next_ptr
dump_D_keepnext(out) ==
    [i \in 1..Len(out) |-> SFEntry(out[i].key, out[i].rid, out[i].next_ptr)]

\* mutant: the last entry of D points behind D instead of ending the list
dump_D_noend(out) ==
    [i \in 1..Len(out) |-> SFEntry(out[i].key, out[i].rid, dptr(i + 1))]

\* the rewrite of D: out[i] goes to d(i), chained d(1) -> d(2) -> ... -> END;
\* what lay behind d(newm) is no longer counted by the header
dump_D(out) ==
    LET newm == Len(out)
    IN [i \in 1..newm |->
          SFEntry(out[i].key, out[i].rid, IF i < newm THEN dptr(i + 1) ELSE 0)]

reorganize(ix) ==
    IF ix.h = 0
    THEN [m |-> 0, a |-> 0, h |-> 0, f |-> << >>, err |-> ""]
    ELSE LET w == reorg_walk(ix.f, ix.m, ix.h, 0, ix.m + ix.a + 8, << >>)
             newm == Len(w.out)
         IN IF w.err # ""
            THEN [m |-> ix.m, a |-> ix.a, h |-> ix.h, f |-> ix.f, err |-> w.err]
            ELSE [m |-> newm, a |-> 0, h |-> IF newm >= 1 THEN dptr(1) ELSE 0,
                  f |-> dump_D(w.out), err |-> ""]

\* mutant: the threshold taken of main_count instead of main_count + 1
reorg_due_m(m, a) == a > log2_floor(Max(1, m))

reorg_due(m, a) == a > log2_floor(Max(1, m + 1))

_maybe_reorg(ix) ==
    IF reorg_due(ix.m, ix.a) THEN reorganize(ix) ELSE [ix EXCEPT !.err = ""]

\* ------------------------------------------------------ operations

\* step 5 of insert: advance to the first live node whose key is >= key
RECURSIVE ins_walk(_, _, _, _, _, _)
ins_walk(f, m, key, prev_ptr, cur_ptr, fuel) ==
    IF is_end(cur_ptr) THEN [prev |-> prev_ptr, cur |-> cur_ptr, err |-> ""]
    ELSE IF ptr_raises(f, cur_ptr, m) THEN [prev |-> prev_ptr, cur |-> cur_ptr, err |-> ptr_err(f, cur_ptr, m)]
    ELSE IF fuel = 0 THEN [prev |-> prev_ptr, cur |-> cur_ptr, err |-> "loop"]
    ELSE LET node == at(f, cur_ptr, m)
         IN IF deleted(node) THEN ins_walk(f, m, key, prev_ptr, node.next_ptr, fuel - 1)
            ELSE IF node.key < key THEN ins_walk(f, m, key, cur_ptr, node.next_ptr, fuel - 1)
            ELSE [prev |-> prev_ptr, cur |-> cur_ptr, err |-> ""]

\* mutant: the new entry points back to its predecessor instead of on to cur
ins_link_back(f1, m, a, h, idx, key, rid, w) ==
    LET newp == aptr(idx)
        f2 == _write(f1, TRUE, idx, SFEntry(key, rid, IF w.prev = 0 THEN w.cur ELSE w.prev), m)
    IN IF w.err # "" THEN [m |-> m, a |-> a - 1, h |-> h, f |-> f1, err |-> w.err]
       ELSE IF w.prev = 0 THEN [m |-> m, a |-> a, h |-> newp, f |-> f2, err |-> ""]
       ELSE IF ptr_raises(f2, w.prev, m) THEN [m |-> m, a |-> a - 1, h |-> h, f |-> f2, err |-> ptr_err(f2, w.prev, m)]
       ELSE LET prev == at(f2, w.prev, m)
                f3 == _write(f2, loc(w.prev).is_aux, loc(w.prev).idx,
                             SFEntry(prev.key, prev.rid, newp), m)
            IN [m |-> m, a |-> a, h |-> h, f |-> f3, err |-> ""]

\* step 6 of insert: prev -> new -> cur, then the header
ins_link(f1, m, a, h, idx, key, rid, w) ==
    LET newp == aptr(idx)
        f2 == _write(f1, TRUE, idx, SFEntry(key, rid, w.cur), m)
    IN IF w.err # "" THEN [m |-> m, a |-> a - 1, h |-> h, f |-> f1, err |-> w.err]
       ELSE IF w.prev = 0 THEN [m |-> m, a |-> a, h |-> newp, f |-> f2, err |-> ""]
       ELSE IF ptr_raises(f2, w.prev, m) THEN [m |-> m, a |-> a - 1, h |-> h, f |-> f2, err |-> ptr_err(f2, w.prev, m)]
       ELSE LET prev == at(f2, w.prev, m)
                f3 == _write(f2, loc(w.prev).is_aux, loc(w.prev).idx,
                             SFEntry(prev.key, prev.rid, newp), m)
            IN [m |-> m, a |-> a, h |-> h, f |-> f3, err |-> ""]

\* insert up to its last header write; a raise leaves the header as it was
ins_chain(ix, key, rid) ==
    LET m == ix.m
        h == ix.h
        idx == ix.a + 1
        f1 == _write(ix.f, TRUE, idx, SFEntry(key, rid, 0), m)
        a == ix.a + 1
        newp == aptr(idx)
        j == live_pred(f1, Min(_lb(f1, m, key) - 1, m))
        fuel == Len(f1) + 1
    IN IF h = 0 THEN [m |-> m, a |-> a, h |-> newp, f |-> f1, err |-> ""]
       ELSE IF j >= 1
       THEN ins_link(f1, m, a, h, idx, key, rid,
                     ins_walk(f1, m, key, dptr(j), _read(f1, FALSE, j, m).next_ptr, fuel))
       ELSE IF ptr_raises(f1, h, m) THEN [m |-> m, a |-> ix.a, h |-> h, f |-> f1, err |-> ptr_err(f1, h, m)]
       ELSE IF key <= at(f1, h, m).key
       THEN [m |-> m, a |-> a, h |-> newp,
             f |-> _write(f1, TRUE, idx, SFEntry(key, rid, h), m), err |-> ""]
       ELSE ins_link(f1, m, a, h, idx, key, rid, ins_walk(f1, m, key, 0, h, fuel))

insert(ix, key, rid) ==
    LET c == ins_chain(ix, key, rid)
    IN IF c.err # "" THEN c ELSE _maybe_reorg(c)

\* mutant: the backward scan starts at lower_bound itself instead of the entry before it
walk_start_lb(f, m, h, key) ==
    LET j == live_pred(f, Min(_lb(f, m, key), m))
    IN IF j >= 1 THEN _read(f, FALSE, j, m).next_ptr ELSE h

\* the start of the slow path: the successor of the live D-predecessor, or the head
walk_start(f, m, h, key) ==
    LET j == live_pred(f, Min(_lb(f, m, key) - 1, m))
    IN IF j >= 1 THEN _read(f, FALSE, j, m).next_ptr ELSE h

RECURSIVE search_walk(_, _, _, _, _, _)
search_walk(f, m, key, cur, out, fuel) ==
    IF is_end(cur) THEN [out |-> out, err |-> ""]
    ELSE IF ptr_raises(f, cur, m) THEN [out |-> out, err |-> ptr_err(f, cur, m)]
    ELSE IF fuel = 0 THEN [out |-> out, err |-> "loop"]
    ELSE LET node == at(f, cur, m)
         IN IF deleted(node) THEN search_walk(f, m, key, node.next_ptr, out, fuel - 1)
            ELSE IF node.key > key THEN [out |-> out, err |-> ""]
            ELSE search_walk(f, m, key, node.next_ptr,
                             IF node.key = key THEN Append(out, node.rid) ELSE out, fuel - 1)

\* the direct hit in D: the entry at lower_bound, when it is live and has the key
direct_hit(f, m, key) ==
    LET lb == _lb(f, m, key)
    IN 1 <= lb /\ lb <= m /\ ~deleted(_read(f, FALSE, lb, m)) /\ _read(f, FALSE, lb, m).key = key

search(ix, key) ==
    IF ix.h = 0 THEN [out |-> << >>, err |-> ""]
    ELSE IF direct_hit(ix.f, ix.m, key)
    THEN [out |-> <<_read(ix.f, FALSE, _lb(ix.f, ix.m, key), ix.m).rid>>, err |-> ""]
    ELSE search_walk(ix.f, ix.m, key, walk_start(ix.f, ix.m, ix.h, key), << >>, Len(ix.f) + 1)

RECURSIVE range_walk(_, _, _, _, _, _, _)
range_walk(f, m, lo, hi, cur, out, fuel) ==
    IF is_end(cur) THEN [out |-> out, err |-> ""]
    ELSE IF ptr_raises(f, cur, m) THEN [out |-> out, err |-> ptr_err(f, cur, m)]
    ELSE IF fuel = 0 THEN [out |-> out, err |-> "loop"]
    ELSE LET node == at(f, cur, m)
         IN IF deleted(node) THEN range_walk(f, m, lo, hi, node.next_ptr, out, fuel - 1)
            ELSE IF node.key > hi THEN [out |-> out, err |-> ""]
            ELSE range_walk(f, m, lo, hi, node.next_ptr,
                            IF node.key >= lo THEN Append(out, node) ELSE out, fuel - 1)

\* mutant: the bounds are taken as given
range_search_noswap(ix, lo0, hi0) ==
    IF ix.h = 0 THEN [out |-> << >>, err |-> ""]
    ELSE range_walk(ix.f, ix.m, lo0, hi0, walk_start(ix.f, ix.m, ix.h, lo0), << >>, Len(ix.f) + 1)

range_search(ix, lo0, hi0) ==
    LET lo == IF lo0 > hi0 THEN hi0 ELSE lo0
        hi == IF lo0 > hi0 THEN lo0 ELSE hi0
    IN IF ix.h = 0 THEN [out |-> << >>, err |-> ""]
       ELSE range_walk(ix.f, ix.m, lo, hi, walk_start(ix.f, ix.m, ix.h, lo), << >>, Len(ix.f) + 1)

\* mutant: the rid is compared by its page only
rid_matches_page(node, rid) ==
    rid = None \/ node.rid.page = rid.page

rid_matches(node, rid) ==
    rid = None \/ (node.rid.page = rid.page /\ node.rid.slot = rid.slot)

\* mutant: the node becomes a tombstone and its predecessor still points to it
del_unlink_noprev(f, m, h, prev_ptr, cur_ptr, node) ==
    [f |-> _write(f, loc(cur_ptr).is_aux, loc(cur_ptr).idx,
                  SFEntry(node.key, node.rid, DELETED), m),
     h |-> IF prev_ptr = 0 THEN node.next_ptr ELSE h]

\* mutant: the predecessor is relinked but a deleted head stays the head
del_unlink_keephead(f, m, h, prev_ptr, cur_ptr, node) ==
    LET nxt == node.next_ptr
        f1 == IF prev_ptr = 0 THEN f
              ELSE _write(f, loc(prev_ptr).is_aux, loc(prev_ptr).idx,
                          SFEntry(at(f, prev_ptr, m).key, at(f, prev_ptr, m).rid, nxt), m)
    IN [f |-> _write(f1, loc(cur_ptr).is_aux, loc(cur_ptr).idx,
                     SFEntry(node.key, node.rid, DELETED), m),
        h |-> h]

\* the unlink of delete_key: the head or the predecessor takes over nxt, the node
\* becomes a tombstone
del_unlink(f, m, h, prev_ptr, cur_ptr, node) ==
    LET nxt == node.next_ptr
        f1 == IF prev_ptr = 0 THEN f
              ELSE _write(f, loc(prev_ptr).is_aux, loc(prev_ptr).idx,
                          SFEntry(at(f, prev_ptr, m).key, at(f, prev_ptr, m).rid, nxt), m)
    IN [f |-> _write(f1, loc(cur_ptr).is_aux, loc(cur_ptr).idx,
                     SFEntry(node.key, node.rid, DELETED), m),
        h |-> IF prev_ptr = 0 THEN nxt ELSE h]

\* mutant: with a rid given the walk goes on after the first entry it removed
RECURSIVE del_walk_all(_, _, _, _, _, _, _, _, _)
del_walk_all(f, m, h, key, rid, prev_ptr, cur_ptr, removed, fuel) ==
    IF is_end(cur_ptr) THEN [f |-> f, h |-> h, removed |-> removed, err |-> ""]
    ELSE IF ptr_raises(f, cur_ptr, m) THEN [f |-> f, h |-> h, removed |-> removed, err |-> ptr_err(f, cur_ptr, m)]
    ELSE IF fuel = 0 THEN [f |-> f, h |-> h, removed |-> removed, err |-> "loop"]
    ELSE LET node == at(f, cur_ptr, m)
         IN IF node.key > key THEN [f |-> f, h |-> h, removed |-> removed, err |-> ""]
            ELSE IF node.key = key /\ rid_matches(node, rid)
            THEN IF prev_ptr # 0 /\ ptr_raises(f, prev_ptr, m)
                 THEN [f |-> f, h |-> h, removed |-> removed, err |-> ptr_err(f, prev_ptr, m)]
                 ELSE LET u == del_unlink(f, m, h, prev_ptr, cur_ptr, node)
                      IN del_walk_all(u.f, m, u.h, key, rid, prev_ptr, node.next_ptr,
                                      removed + 1, fuel - 1)
            ELSE del_walk_all(f, m, h, key, rid, cur_ptr, node.next_ptr, removed, fuel - 1)

RECURSIVE del_walk(_, _, _, _, _, _, _, _, _)
del_walk(f, m, h, key, rid, prev_ptr, cur_ptr, removed, fuel) ==
    IF is_end(cur_ptr) THEN [f |-> f, h |-> h, removed |-> removed, err |-> ""]
    ELSE IF ptr_raises(f, cur_ptr, m) THEN [f |-> f, h |-> h, removed |-> removed, err |-> ptr_err(f, cur_ptr, m)]
    ELSE IF fuel = 0 THEN [f |-> f, h |-> h, removed |-> removed, err |-> "loop"]
    ELSE LET node == at(f, cur_ptr, m)
         IN IF node.key > key THEN [f |-> f, h |-> h, removed |-> removed, err |-> ""]
            ELSE IF node.key = key /\ rid_matches(node, rid)
            THEN IF prev_ptr # 0 /\ ptr_raises(f, prev_ptr, m)
                 THEN [f |-> f, h |-> h, removed |-> removed, err |-> ptr_err(f, prev_ptr, m)]
                 ELSE LET u == del_unlink(f, m, h, prev_ptr, cur_ptr, node)
                      IN IF rid # None
                         THEN [f |-> u.f, h |-> u.h, removed |-> removed + 1, err |-> ""]
                         ELSE del_walk(u.f, m, u.h, key, rid, prev_ptr, node.next_ptr,
                                       removed + 1, fuel - 1)
            ELSE del_walk(f, m, h, key, rid, cur_ptr, node.next_ptr, removed, fuel - 1)

\* delete_key: the index afterwards and the number removed; a raise leaves the
\* header as it was
delete_key(ix, key, rid) ==
    LET m == ix.m
        j == live_pred(ix.f, Min(_lb(ix.f, m, key) - 1, m))
        w == del_walk(ix.f, m, ix.h, key, rid,
                      IF j >= 1 THEN dptr(j) ELSE 0,
                      IF j >= 1 THEN _read(ix.f, FALSE, j, m).next_ptr ELSE ix.h,
                      0, Len(ix.f) + 1)
    IN IF ix.h = 0 THEN [ix |-> ix, removed |-> 0]
       ELSE IF w.err # ""
       THEN [ix |-> [ix EXCEPT !.f = w.f, !.err = w.err], removed |-> w.removed]
       ELSE [ix |-> [ix EXCEPT !.f = w.f, !.h = w.h], removed |-> w.removed]

\* ------------------------------------------------------ history

SeqToSet(s) == {s[i] : i \in 1..Len(s)}

RECURSIVE remove_first(_, _)
remove_first(s, x) ==
    IF s = << >> THEN << >>
    ELSE IF Head(s) = x THEN Tail(s)
    ELSE <<Head(s)>> \o remove_first(Tail(s), x)

\* ------------------------------------------------------ the index alone

set_index(ix) ==
    /\ main_count' = ix.m
    /\ aux_count' = ix.a
    /\ head_ptr' = ix.h
    /\ entries' = ix.f

\* no row is on its way through the codec
CodecIdle == [step |-> "idle"]

\* a fresh index file and an empty heap file
InitTable ==
    /\ main_count = 0
    /\ aux_count = 0
    /\ head_ptr = 0
    /\ entries = << >>
    /\ inserted = [k \in Keys |-> << >>]
    /\ pages = << >>
    /\ held = {}

Init == InitTable /\ codec = CodecIdle

IdxInsert(k, rid) ==
    /\ main_count + aux_count < MaxEntries
    /\ LET r == insert(Index, k, rid)
       IN /\ set_index(r)
          /\ inserted' = IF r.err = "" THEN [inserted EXCEPT ![k] = <<rid>> \o @] ELSE inserted

IdxDeleteKey(k, rid) ==
    LET r == delete_key(Index, k, rid)
    IN /\ set_index(r.ix)
       /\ inserted' = IF r.ix.err # "" THEN inserted
                      ELSE IF rid = None THEN [inserted EXCEPT ![k] = << >>]
                      ELSE [inserted EXCEPT ![k] = remove_first(@, rid)]

IdxReorganize ==
    LET r == reorganize(Index)
    IN /\ set_index(r)
       /\ inserted' = inserted

Next ==
    \/ \E k \in Keys, rid \in IdxRids : IdxInsert(k, rid) /\ UNCHANGED <<heap_vars, codec_vars>>
    \/ \E k \in Keys, rid \in IdxRids \cup {None} : IdxDeleteKey(k, rid) /\ UNCHANGED <<heap_vars, codec_vars>>
    \/ IdxReorganize /\ UNCHANGED <<heap_vars, codec_vars>>

Spec == Init /\ [][Next]_vars

\* ====================================================== row codec (rowfmt.py)

\* Values: an integer, a text of n bytes (all the byte c), or null. A blob is
\* the encoded row: ncols, the null bits and one part per non-null column; its
\* bytes are counted as pack_row emits them.
Null == [t |-> "null"]

IntVal(v) == [t |-> "int", v |-> v]

FloatVal(v) == [t |-> "float", v |-> v]

Text(c, n) == [t |-> "str", c |-> c, n |-> n]

\* N of VARCHAR(N), kept within 0..65535
\* mutant: the text is cut one byte short of N
_varchar_max_short(typ) == Max(0, Min(65535, typ.max - 1))

_varchar_max(typ) == Max(0, Min(65535, typ.max))

_nullmap_size(n) == (n + 7) \div 8

row_get(row, name) == IF name \in DOMAIN row THEN row[name] ELSE Null

\* the payload of one non-null column
pack_field(val, typ) ==
    IF typ.kind = "INT" THEN [k |-> "i4", v |-> val.v]
    ELSE IF typ.kind = "FLOAT" THEN [k |-> "f8", v |-> val.v]
    ELSE IF typ.kind = "VARCHAR"
    THEN [k |-> "str", c |-> val.c, n |-> Min(val.n, _varchar_max(typ))]
    ELSE [k |-> "str", c |-> val.c, n |-> val.n]

part_size(part) == IF part.k = "i4" THEN 4 ELSE IF part.k = "f8" THEN 8 ELSE 2 + part.n

RECURSIVE pack_parts(_, _, _)
pack_parts(row, schema, i) ==
    IF i > Len(schema) THEN << >>
    ELSE IF row_get(row, schema[i].name) = Null THEN pack_parts(row, schema, i + 1)
    ELSE <<pack_field(row_get(row, schema[i].name), schema[i].typ)>>
         \o pack_parts(row, schema, i + 1)

pack_row(row, schema) ==
    [ncols |-> Len(schema),
     nullmap |-> {i \in 0..(Len(schema) - 1) : row_get(row, schema[i + 1].name) = Null},
     parts |-> pack_parts(row, schema, 1)]

\* pack_row raises ValueError on a DATE of more than 255 bytes
pack_raises(row, schema) ==
    \E i \in 1..Len(schema) :
        /\ schema[i].typ.kind = "DATE"
        /\ row_get(row, schema[i].name) # Null
        /\ row_get(row, schema[i].name).n > 255

RECURSIVE sum_sizes(_)
sum_sizes(parts) == IF parts = << >> THEN 0 ELSE part_size(Head(parts)) + sum_sizes(Tail(parts))

\* len(blob)
blob_len(blob) == 2 + _nullmap_size(blob.ncols) + sum_sizes(blob.parts)

unpack_field(part) ==
    IF part.k = "i4" THEN IntVal(part.v)
    ELSE IF part.k = "f8" THEN FloatVal(part.v)
    ELSE Text(part.c, part.n)

\* the number of non-null columns before column i (0-based): where its part lies
parts_before(blob, i) == Cardinality({j \in 0..(i - 1) : j \notin blob.nullmap})

unpack_row(blob, schema) ==
    [name \in {schema[i].name : i \in 1..Len(schema)} |->
        LET i == CHOOSE j \in 0..(Len(schema) - 1) : schema[j + 1].name = name
        IN IF i \in blob.nullmap THEN Null
           ELSE unpack_field(blob.parts[parts_before(blob, i) + 1])]

\* ====================================================== heap file (heapfile.py)

PAGE_SIZE == 4096
HDR_SIZE == 4
SLOT_SIZE == 4

\* the schema the heap is opened with
Schema ==
    <<[name |-> "id", typ |-> [kind |-> "INT", max |-> 0]],
      [name |-> "nombre", typ |-> [kind |-> "VARCHAR", max |-> 5000]]>>

RID(page, slot) == [page |-> page, slot |-> slot]

_num_pages(hp) == Len(hp)

\* a page of zero bytes
ZeroPage == [nslots |-> 0, data_end |-> 0, slots |-> << >>, data |-> << >>]

_write_hdr(hp, p, nslots, data_end) ==
    [hp EXCEPT ![p + 1].nslots = nslots, ![p + 1].data_end = data_end]

\* called with p = _num_pages at most: one page of zeros, then its header
_ensure_page(hp, p) ==
    IF p < _num_pages(hp) THEN hp
    ELSE _write_hdr(Append(hp, ZeroPage), p, 0, PAGE_SIZE)

_read_slot(hp, p, s) == hp[p + 1].slots[s + 1]

_write_slot(hp, p, s, off, ln) ==
    IF s + 1 <= Len(hp[p + 1].slots)
    THEN [hp EXCEPT ![p + 1].slots[s + 1] = [off |-> off, len |-> ln]]
    ELSE [hp EXCEPT ![p + 1].slots = Append(@, [off |-> off, len |-> ln])]

NoSlot == -1

\* the first slot with len = 0, NoSlot if there is none
_find_free_slot(hp, p, nslots) ==
    LET free == {s \in 0..(nslots - 1) : _read_slot(hp, p, s).len = 0}
    IN IF free = {} THEN NoSlot ELSE CHOOSE s \in free : \A t \in free : s <= t

\* mutant: the free bytes counted from the page end, not from data_end
_free_bytes_page(nslots, data_end, reuse_slot) ==
    Max(0, PAGE_SIZE - (HDR_SIZE + (nslots + (IF reuse_slot THEN 0 ELSE 1)) * SLOT_SIZE))

\* mutant: the directory is always counted with one slot more
_free_bytes_noreuse(nslots, data_end, reuse_slot) ==
    Max(0, data_end - (HDR_SIZE + (nslots + 1) * SLOT_SIZE))

_free_bytes(nslots, data_end, reuse_slot) ==
    Max(0, data_end - (HDR_SIZE + (nslots + (IF reuse_slot THEN 0 ELSE 1)) * SLOT_SIZE))

\* one round of insert's loop on page p: whether the blob fits, and the file
\* and RID if it does
try_page(hp, p, blob) ==
    LET nslots == hp[p + 1].nslots
        data_end == hp[p + 1].data_end
        s_free == _find_free_slot(hp, p, nslots)
        reuse == s_free # NoSlot
        s == IF reuse THEN s_free ELSE nslots
        nslots1 == IF reuse THEN nslots ELSE nslots + 1
        data_end1 == data_end - blob_len(blob)
        hp1 == [hp EXCEPT ![p + 1].data = (data_end1 :> blob) @@ @]
        hp2 == _write_slot(hp1, p, s, data_end1, blob_len(blob))
    IN IF _free_bytes(nslots, data_end, reuse) >= blob_len(blob)
       THEN [fits |-> TRUE, hp |-> _write_hdr(hp2, p, nslots1, data_end1), rid |-> RID(p, s)]
       ELSE [fits |-> FALSE, hp |-> hp, rid |-> RID(p, s)]

heap_insert(hp, row) ==
    LET blob == pack_row(row, Schema)
        hp0 == IF _num_pages(hp) = 0 THEN _ensure_page(hp, 0) ELSE hp
        r1 == try_page(hp0, _num_pages(hp0) - 1, blob)
        hp1 == _ensure_page(hp0, _num_pages(hp0))
        r2 == try_page(hp1, _num_pages(hp1) - 1, blob)
    IN IF pack_raises(row, Schema) THEN [hp |-> hp, rid |-> None, err |-> "ValueError"]
       ELSE IF blob_len(blob) + HDR_SIZE + SLOT_SIZE > PAGE_SIZE
       THEN [hp |-> hp, rid |-> None, err |-> "ValueError"]
       ELSE IF r1.fits THEN [hp |-> r1.hp, rid |-> r1.rid, err |-> ""]
       ELSE IF r2.fits THEN [hp |-> r2.hp, rid |-> r2.rid, err |-> ""]
       ELSE [hp |-> _ensure_page(hp1, _num_pages(hp1)), rid |-> None, err |-> "RuntimeError"]

\* _read_hdr of a page the file does not have reads no bytes and unpack raises
hdr_raises(hp, rid) == rid.page < 0 \/ rid.page >= _num_pages(hp)

\* the bytes [off, off + ln) of the page: the blob written there
read_bytes(hp, p, off, ln) ==
    IF off \in DOMAIN hp[p + 1].data /\ blob_len(hp[p + 1].data[off]) = ln
    THEN hp[p + 1].data[off]
    ELSE [ncols |-> -1, nullmap |-> {}, parts |-> << >>]

heap_read(hp, rid) ==
    IF hdr_raises(hp, rid) THEN [row |-> << >>, err |-> "struct.error"]
    ELSE IF rid.slot < 0 \/ rid.slot >= hp[rid.page + 1].nslots
    THEN [row |-> << >>, err |-> "KeyError"]
    ELSE IF _read_slot(hp, rid.page, rid.slot).len = 0
    THEN [row |-> << >>, err |-> "KeyError"]
    ELSE LET sl == _read_slot(hp, rid.page, rid.slot)
             buf == read_bytes(hp, rid.page, sl.off, sl.len)
         IN IF buf.ncols # Len(Schema) THEN [row |-> << >>, err |-> "ValueError"]
            ELSE [row |-> [_rid |-> rid] @@ unpack_row(buf, Schema), err |-> ""]

heap_delete(hp, rid) ==
    IF hdr_raises(hp, rid) THEN [hp |-> hp, ret |-> FALSE, err |-> "struct.error"]
    ELSE IF rid.slot < 0 \/ rid.slot >= hp[rid.page + 1].nslots
    THEN [hp |-> hp, ret |-> FALSE, err |-> ""]
    ELSE IF _read_slot(hp, rid.page, rid.slot).len = 0
    THEN [hp |-> hp, ret |-> FALSE, err |-> ""]
    ELSE [hp |-> _write_slot(hp, rid.page, rid.slot, _read_slot(hp, rid.page, rid.slot).off, 0),
          ret |-> TRUE, err |-> ""]

\* mutant: every slot of the directory, free or not
RECURSIVE page_rids_all(_, _, _)
page_rids_all(hp, p, s) ==
    IF s >= hp[p + 1].nslots THEN << >>
    ELSE <<RID(p, s)>> \o page_rids_all(hp, p, s + 1)

\* the live slots of page p from slot s on, in slot order
RECURSIVE page_rids(_, _, _)
page_rids(hp, p, s) ==
    IF s >= hp[p + 1].nslots THEN << >>
    ELSE (IF _read_slot(hp, p, s).len # 0 THEN <<RID(p, s)>> ELSE << >>)
         \o page_rids(hp, p, s + 1)

RECURSIVE rids_from(_, _)
rids_from(hp, p) ==
    IF p >= _num_pages(hp) THEN << >> ELSE page_rids(hp, p, 0) \o rids_from(hp, p + 1)

iter_rids(hp) == rids_from(hp, 0)

iter_rows(hp) == [i \in 1..Len(iter_rids(hp)) |-> heap_read(hp, iter_rids(hp)[i]).row]

scan_eq(hp, col, key) == SelectSeq(iter_rows(hp), LAMBDA row : row_get(row, col) = key)

\* ------------------------------------------------------ the heap alone

\* the rows the heap is given when it is driven alone: a short one and a long one
HeapRows ==
    {[id |-> IntVal(1), nombre |-> Text("a", ShortLen)],
     [id |-> IntVal(2), nombre |-> Text("b", LongLen)]}

\* the RIDs a delete is tried on: also slots and a page the file does not have
HeapRids == {RID(p, s) : p \in 0..MaxPages, s \in 0..3}

HeapInsert(row) ==
    LET r == heap_insert(pages, row)
    IN /\ _num_pages(r.hp) <= MaxPages
       /\ pages' = r.hp
       /\ held' = IF r.err = "" THEN held \cup {r.rid} ELSE held

HeapDelete(rid) ==
    LET r == heap_delete(pages, rid)
    IN /\ pages' = r.hp
       /\ held' = IF r.err = "" /\ r.ret THEN held \ {rid} ELSE held

NextHeap ==
    \/ \E row \in HeapRows : HeapInsert(row) /\ UNCHANGED <<idx_vars, codec_vars>>
    \/ \E rid \in HeapRids : HeapDelete(rid) /\ UNCHANGED <<idx_vars, codec_vars>>

SpecHeap == Init /\ [][NextHeap]_vars

\* ------------------------------------------------------ the codec alone

\* the column types: INT, FLOAT, DATE and VARCHAR(0..MaxVar)
CodecTypes ==
    {[kind |-> k, max |-> 0] : k \in {"INT", "FLOAT", "DATE"}}
    \cup {[kind |-> "VARCHAR", max |-> n] : n \in 0..MaxVar}

\* the values a column of a type is given: the ends of the 32-bit range, a
\* float, texts of up to MaxVar + 1 bytes, a date and a text too long for a date
CodecVals(typ) ==
    IF typ.kind = "INT" THEN {IntVal(-2147483647 - 1), IntVal(2147483647)}
    ELSE IF typ.kind = "FLOAT" THEN {FloatVal(1)}
    ELSE IF typ.kind = "VARCHAR" THEN {Text("a", n) : n \in 0..(MaxVar + 1)}
    ELSE {Text("d", 10), Text("d", 256)}

\* one column of a row: absent, null, or a value
CodecCol(typ) ==
    {[has |-> FALSE, val |-> Null]} \cup {[has |-> TRUE, val |-> v] : v \in CodecVals(typ) \cup {Null}}

\* a column type with what a row holds for it
CodecPairs == UNION {{[typ |-> t, col |-> c] : c \in CodecCol(t)} : t \in CodecTypes}

\* the dict of the columns that are there
MakeRow(names, cols) ==
    [n \in {names[i] : i \in {j \in 1..Len(names) : cols[j].has}} |->
        cols[CHOOSE i \in 1..Len(names) : names[i] = n].val]

CodecNames == <<"id", "nombre">>

\* schemas of one and of two columns, each with the rows over it; and the
\* schema of the heap with rows that fit a page
CodecInputs ==
    {[schema |-> <<[name |-> CodecNames[1], typ |-> x.typ]>>,
      row |-> MakeRow(<<CodecNames[1]>>, <<x.col>>)] : x \in CodecPairs}
    \cup
    {[schema |-> <<[name |-> CodecNames[1], typ |-> x[1].typ],
                   [name |-> CodecNames[2], typ |-> x[2].typ]>>,
      row |-> MakeRow(CodecNames, <<x[1].col, x[2].col>>)] : x \in CodecPairs \X CodecPairs}
    \cup
    {[schema |-> Schema, row |-> r] :
         r \in HeapRows \cup {MakeRow(CodecNames, <<[has |-> FALSE, val |-> Null],
                                                    [has |-> TRUE, val |-> Text("b", ShortLen)]>>)}}

InitCodec ==
    /\ InitTable
    /\ \E x \in CodecInputs :
          codec = [step |-> "new", schema |-> x.schema, row |-> x.row, blob |-> << >>,
                   out |-> << >>, rid |-> None, err |-> ""]

CodecPack ==
    /\ codec.step = "new"
    /\ codec' = IF pack_raises(codec.row, codec.schema)
                THEN [codec EXCEPT !.step = "failed", !.err = "ValueError"]
                ELSE [codec EXCEPT !.step = "packed", !.blob = pack_row(codec.row, codec.schema)]
    /\ UNCHANGED <<idx_vars, heap_vars>>

CodecUnpack ==
    /\ codec.step = "packed"
    /\ codec' = IF codec.blob.ncols # Len(codec.schema)
                THEN [codec EXCEPT !.step = "failed", !.err = "ValueError"]
                ELSE [codec EXCEPT !.step = "done", !.out = unpack_row(codec.blob, codec.schema)]
    /\ UNCHANGED <<idx_vars, heap_vars>>

\* the row goes into the heap file instead
CodecStore ==
    LET r == heap_insert(pages, codec.row)
    IN /\ codec.step = "new"
       /\ codec.schema = Schema
       /\ pages' = r.hp
       /\ held' = IF r.err = "" THEN held \cup {r.rid} ELSE held
       /\ codec' = IF r.err # "" THEN [codec EXCEPT !.step = "failed", !.err = r.err]
                   ELSE [codec EXCEPT !.step = "stored", !.rid = r.rid]
       /\ UNCHANGED idx_vars

CodecRead ==
    LET r == heap_read(pages, codec.rid)
    IN /\ codec.step = "stored"
       /\ codec' = IF r.err # "" THEN [codec EXCEPT !.step = "failed", !.err = r.err]
                   ELSE [codec EXCEPT !.step = "read", !.out = r.row]
       /\ UNCHANGED <<idx_vars, heap_vars>>

NextCodec ==
    \/ CodecPack
    \/ CodecUnpack
    \/ CodecStore
    \/ CodecRead

SpecCodec == InitCodec /\ [][NextCodec]_vars

\* ====================================================== executor (executor.py)

\* [e.rid for e in ...] of the index adaptor's range_search
RidsOfEntries(es) == [i \in 1..Len(es) |-> es[i].rid]

\* the column of the one registered index
key_col == "id"

\* int(key) of the index adaptor
key_int(val) == val.v

has_index(col) == col = key_col

\* [self.heap.read(r) for r in rids]: the rows, or the first error raised
RECURSIVE read_all(_, _)
read_all(hp, rids) ==
    IF rids = << >> THEN [rows |-> << >>, err |-> ""]
    ELSE LET r == heap_read(hp, Head(rids))
             rest == read_all(hp, Tail(rids))
         IN IF r.err # "" THEN [rows |-> << >>, err |-> r.err]
            ELSE IF rest.err # "" THEN rest
            ELSE [rows |-> <<r.row>> \o rest.rows, err |-> ""]

\* the order of the bytes "a" and "b" the texts are made of
char_rank(c) == IF c = "a" THEN 1 ELSE IF c = "b" THEN 2 ELSE 3

\* x <= y as Python compares two ints, or two strings (a text is n times one byte)
val_le(x, y) ==
    IF x.t = "int" THEN x.v <= y.v
    ELSE IF x.n = 0 THEN TRUE
    ELSE IF y.n = 0 THEN FALSE
    ELSE IF x.c # y.c THEN char_rank(x.c) < char_rank(y.c)
    ELSE x.n <= y.n

scan_range(hp, col, lo0, hi0) ==
    LET lo == IF ~val_le(lo0, hi0) THEN hi0 ELSE lo0
        hi == IF ~val_le(lo0, hi0) THEN lo0 ELSE hi0
    IN SelectSeq(iter_rows(hp),
                 LAMBDA row : row_get(row, col) # Null /\ val_le(lo, row_get(row, col))
                              /\ val_le(row_get(row, col), hi))

exec_select_eq(hp, ix, col, key) ==
    IF has_index(col)
    THEN LET sr == search(ix, key_int(key))
         IN IF sr.err # "" THEN [rows |-> << >>, err |-> sr.err] ELSE read_all(hp, sr.out)
    ELSE [rows |-> scan_eq(hp, col, key), err |-> ""]

exec_select_between(hp, ix, col, lo, hi) ==
    IF has_index(col)
    THEN LET rr == range_search(ix, key_int(lo), key_int(hi))
         IN IF rr.err # "" THEN [rows |-> << >>, err |-> rr.err]
            ELSE read_all(hp, RidsOfEntries(rr.out))
    ELSE [rows |-> scan_range(hp, col, lo, hi), err |-> ""]

\* Executor.insert: the heap first, then the index
exec_insert(hp, ix, row) ==
    LET h == heap_insert(hp, row)
    IN IF h.err # "" THEN [hp |-> hp, ix |-> ix, rid |-> None, err |-> h.err]
       ELSE IF key_col \notin DOMAIN row
       THEN [hp |-> h.hp, ix |-> ix, rid |-> h.rid, err |-> "ValueError"]
       ELSE LET i == insert(ix, key_int(row[key_col]), h.rid)
            IN [hp |-> h.hp, ix |-> i, rid |-> h.rid, err |-> i.err]

\* mutant: the rows are freed in the heap and the index is left as it was
RECURSIVE exec_del_loop_noidx(_, _, _, _, _, _, _)
exec_del_loop_noidx(hp, ix, rows, col, key, cnt, freed) ==
    IF rows = << >> THEN [hp |-> hp, ix |-> ix, cnt |-> cnt, freed |-> freed, err |-> ""]
    ELSE LET rid == RID(Head(rows)._rid.page, Head(rows)._rid.slot)
             d == heap_delete(hp, rid)
         IN IF d.err # ""
            THEN [hp |-> hp, ix |-> ix, cnt |-> cnt, freed |-> freed, err |-> d.err]
            ELSE IF ~d.ret THEN exec_del_loop_noidx(hp, ix, Tail(rows), col, key, cnt, freed)
            ELSE exec_del_loop_noidx(d.hp, ix, Tail(rows), col, key, cnt + 1, Append(freed, rid))

\* the loop of Executor.delete over the rows found; freed lists the rids whose
\* heap.delete returned true
RECURSIVE exec_del_loop(_, _, _, _, _, _, _)
exec_del_loop(hp, ix, rows, col, key, cnt, freed) ==
    IF rows = << >> THEN [hp |-> hp, ix |-> ix, cnt |-> cnt, freed |-> freed, err |-> ""]
    ELSE LET rid == RID(Head(rows)._rid.page, Head(rows)._rid.slot)
             d == heap_delete(hp, rid)
             i == IF has_index(col) THEN delete_key(ix, key_int(key), rid).ix ELSE ix
         IN IF d.err # ""
            THEN [hp |-> hp, ix |-> ix, cnt |-> cnt, freed |-> freed, err |-> d.err]
            ELSE IF ~d.ret THEN exec_del_loop(hp, ix, Tail(rows), col, key, cnt, freed)
            ELSE IF i.err # ""
            THEN [hp |-> d.hp, ix |-> i, cnt |-> cnt, freed |-> Append(freed, rid), err |-> i.err]
            ELSE exec_del_loop(d.hp, i, Tail(rows), col, key, cnt + 1, Append(freed, rid))

exec_delete(hp, ix, col, key) ==
    LET found == exec_select_eq(hp, ix, col, key)
    IN IF found.err # ""
       THEN [hp |-> hp, ix |-> ix, cnt |-> 0, freed |-> << >>, err |-> found.err]
       ELSE exec_del_loop(hp, ix, found.rows, col, key, 0, << >>)

\* ------------------------------------------------------ the executor

\* the rows the executor is given: two that share an id, two that share a nombre
ExecRows ==
    {[id |-> IntVal(1), nombre |-> Text("a", ExecLen)],
     [id |-> IntVal(1), nombre |-> Text("b", ExecLen)],
     [id |-> IntVal(2), nombre |-> Text("a", ExecLen)]}

\* what a delete is asked for: a value of id, or a value of nombre
ExecDeletes ==
    {[col |-> "id", key |-> IntVal(k)] : k \in Keys}
    \cup {[col |-> "nombre", key |-> t] : t \in {Text("a", ExecLen), Text("b", ExecLen)}}

RECURSIVE remove_all(_, _)
remove_all(s, rids) ==
    IF rids = << >> THEN s ELSE remove_all(remove_first(s, Head(rids)), Tail(rids))

\* Executor.insert while the heap file stays within np pages
ExecInsertWithin(row, np) ==
    LET r == exec_insert(pages, Index, row)
    IN /\ main_count + aux_count < MaxEntries
       /\ _num_pages(r.hp) <= np
       /\ pages' = r.hp
       /\ set_index(r.ix)
       /\ held' = IF r.rid # None THEN held \cup {r.rid} ELSE held
       /\ inserted' = IF r.err = ""
                      THEN [inserted EXCEPT ![key_int(row[key_col])] = <<r.rid>> \o @]
                      ELSE inserted

ExecInsert(row) == ExecInsertWithin(row, ExecMaxPages)

ExecDelete(col, key) ==
    LET r == exec_delete(pages, Index, col, key)
    IN /\ pages' = r.hp
       /\ set_index(r.ix)
       /\ held' = held \ SeqToSet(r.freed)
       /\ inserted' = IF has_index(col)
                      THEN [inserted EXCEPT ![key_int(key)] = remove_all(@, r.freed)]
                      ELSE inserted

NextExec ==
    \/ \E row \in ExecRows : ExecInsert(row) /\ UNCHANGED codec_vars
    \/ \E d \in ExecDeletes : ExecDelete(d.col, d.key) /\ UNCHANGED codec_vars

SpecExec == Init /\ [][NextExec]_vars

\* the rows given when every delete is on the indexed column: one of each id
\* (a row given twice is two rows of one key)
KeyRows ==
    {[id |-> IntVal(1), nombre |-> Text("a", ExecLen)],
     [id |-> IntVal(2), nombre |-> Text("b", ExecLen)]}

\* the executor with every delete on the indexed column, over a heap file of up
\* to MaxPages pages
NextExecKey ==
    \/ \E row \in KeyRows : ExecInsertWithin(row, MaxPages) /\ UNCHANGED codec_vars
    \/ \E k \in Keys : ExecDelete(key_col, IntVal(k)) /\ UNCHANGED codec_vars

SpecExecKey == Init /\ [][NextExecKey]_vars

\* ====================================================== properties of the index

\* the operations never raise and never read bytes the header does not count
NoStaleRead ==
    /\ \A k \in Keys, rid \in IdxRids : insert(Index, k, rid).err = ""
    /\ \A k \in Keys, rid \in IdxRids \cup {None} : delete_key(Index, k, rid).ix.err = ""
    /\ \A k \in 0..(MaxKey + 1) : search(Index, k).err = ""
    /\ \A lo \in 0..(MaxKey + 1), hi \in 0..(MaxKey + 1) : range_search(Index, lo, hi).err = ""
    /\ reorganize(Index).err = ""
    /\ Len(entries) = main_count + aux_count

\* positions (in entries) of the live entries among D[1..main_count] and A[1..aux_count]
LivePos == {p \in 1..(main_count + aux_count) : p <= Len(entries) /\ ~deleted(entries[p])}

PtrInFile(p) == (1 <= p /\ p <= main_count) \/ (p <= -2 /\ -p - 1 <= aux_count)

PosOfPtr(p) == IF p > 0 THEN p ELSE main_count + (-p - 1)

\* the positions met following next_ptr from cur; a 0 marks a pointer that leads
\* nowhere (a tombstone's -1, a pointer outside D and A) or a walk longer than the file
RECURSIVE Follow(_, _, _)
Follow(cur, fuel, acc) ==
    IF cur = 0 THEN acc
    ELSE IF fuel = 0 \/ ~PtrInFile(cur) THEN Append(acc, 0)
    ELSE Follow(entries[PosOfPtr(cur)].next_ptr, fuel - 1, Append(acc, PosOfPtr(cur)))

LogicalList == Follow(head_ptr, main_count + aux_count, << >>)

SelectKey(s, k) == SelectSeq(s, LAMBDA e : e.key = k)

RidsOf(s) == [i \in 1..Len(s) |-> s[i].rid]

RECURSIVE Pow2(_)
Pow2(n) == IF n <= 0 THEN 1 ELSE 2 * Pow2(n - 1)

\* C1: following next_ptr from head_ptr reaches end-of-list and visits every live
\* entry of D and A exactly once, in non-decreasing key order, and no tombstone.
C1_LogicalList ==
    LET c == LogicalList
    IN /\ \A i \in 1..Len(c) : c[i] # 0 /\ ~deleted(entries[c[i]])
       /\ \A p \in LivePos : Cardinality({i \in 1..Len(c) : c[i] = p}) = 1
       /\ \A i \in 1..Len(c), j \in 1..Len(c) :
             i < j => entries[c[i]].key <= entries[c[j]].key

\* a list that runs through D and A around a tombstone of D
C1_Witness ==
    /\ aux_count >= 1
    /\ \E p \in 1..main_count : deleted(entries[p])
    /\ \E p \in LivePos : p <= main_count
    /\ \E p \in LivePos : p > main_count
    /\ Len(LogicalList) >= 2

\* C2: search(k) contains every rid inserted under k and not deleted since.
C2_SearchComplete ==
    \A k \in Keys : SeqToSet(inserted[k]) \subseteq SeqToSet(search(Index, k).out)

\* C3: with two entries of one key, search returns both rids, the later inserted first.
C3_EqualKeyOrder ==
    \A k \in Keys :
        Len(inserted[k]) = 2 /\ inserted[k][1] # inserted[k][2] =>
            search(Index, k).out = inserted[k]

\* C4: range_search(lo, hi) returns exactly the live entries with key in the
\* normalized range, each once, in non-decreasing key order (entries of one key
\* latest first, as the list holds them), and no tombstone.
C4_RangeSearch ==
    \A lo \in 0..(MaxKey + 1), hi \in 0..(MaxKey + 1) :
        LET r == range_search(Index, lo, hi)
            l == Min(lo, hi)
            h == Max(lo, hi)
        IN /\ r.err = ""
           /\ \A i \in 1..Len(r.out) :
                 l <= r.out[i].key /\ r.out[i].key <= h /\ ~deleted(r.out[i])
           /\ \A i \in 1..Len(r.out), j \in 1..Len(r.out) :
                 i < j => r.out[i].key <= r.out[j].key
           /\ \A k \in Keys :
                 l <= k /\ k <= h => RidsOf(SelectKey(r.out, k)) = inserted[k]

\* a range that starts behind a live D entry and leaves live entries out on both
\* sides, with a tombstone in the file
C4_Witness ==
    /\ \E p \in 1..(main_count + aux_count) : deleted(entries[p])
    /\ \E p \in LivePos : p <= main_count /\ entries[p].key < MaxKey
    /\ aux_count >= 1
    /\ Len(range_search(Index, MaxKey, MaxKey).out) >= 1
    /\ Len(range_search(Index, MaxKey, MaxKey).out) < Cardinality(LivePos)

\* C9: head_ptr is 0 exactly when no entry of D and A is live, and an insert into
\* an index without live entries makes the new entry the head.
C9_HeadEmpty ==
    /\ (head_ptr = 0) <=> (LivePos = {})
    /\ head_ptr = 0 =>
          \A k \in Keys, rid \in IdxRids :
              LET r == insert(Index, k, rid)
              IN /\ r.h # 0 /\ ~ptr_raises(r.f, r.h, r.m)
                 /\ at(r.f, r.h, r.m) = SFEntry(k, rid, 0)

\* the last live entry was deleted: tombstones only
C9_Witness ==
    /\ head_ptr = 0
    /\ main_count + aux_count >= 2
    /\ \A k \in Keys : inserted[k] = << >>

\* C10: an insert reorganizes exactly when, after the append, aux_count exceeds
\* floor(log2(main_count + 1)); so between operations 2^aux_count <= main_count + 1,
\* and the first insert into an empty index leaves main_count = 1, aux_count = 0.
C10_ReorgTrigger ==
    /\ Pow2(aux_count) <= main_count + 1
    /\ \A k \in Keys, rid \in IdxRids :
          LET r == insert(Index, k, rid)
          IN IF Pow2(aux_count + 1) > main_count + 1
             THEN r.a = 0 /\ r.m = Cardinality(LivePos) + 1
             ELSE r.a = aux_count + 1 /\ r.m = main_count
    /\ main_count = 0 /\ aux_count = 0 =>
          \A k \in Keys, rid \in IdxRids :
              LET r == insert(Index, k, rid) IN r.m = 1 /\ r.a = 0

\* A holds an entry next to a D of two: the insert before did not reorganize, the
\* next one will
C10_Witness ==
    /\ main_count = 2
    /\ aux_count = 1
    /\ Cardinality(LivePos) = 3

\* C11: after reorganize aux_count is 0, main_count is the number of entries that
\* were live, D holds them as (key, rid) in their logical order without a
\* tombstone, chained D[1] -> D[2] -> ... -> end, and the header is
\* (newm, 0, pointer to D[1]), or (0, 0, 0) when nothing was live.
C11_PostReorganize ==
    LET r == reorganize(Index)
        c == LogicalList
    IN /\ r.err = ""
       /\ r.a = 0
       /\ r.m = Cardinality(LivePos)
       /\ r.m = Len(c)
       /\ Len(r.f) >= r.m
       /\ \A i \in 1..r.m :
             /\ r.f[i].key = entries[c[i]].key
             /\ r.f[i].rid = entries[c[i]].rid
             /\ r.f[i].next_ptr = IF i < r.m THEN dptr(i + 1) ELSE 0
       /\ r.h = IF r.m >= 1 THEN dptr(1) ELSE 0

\* a reorganize has something to do: the list starts in A, runs on into D, and D
\* holds a tombstone
C11_Witness ==
    /\ head_ptr < 0
    /\ aux_count >= 1
    /\ Cardinality(LivePos) >= 2
    /\ \E p \in 1..main_count : deleted(entries[p])
    /\ reorganize(Index).f # entries

\* C12: reorganize twice in a row leaves the same header and the same D as
\* reorganize once.
C12_ReorganizeIdempotent ==
    LET r1 == reorganize(Index)
        r2 == reorganize(r1)
    IN /\ r2.err = ""
       /\ r2.m = r1.m /\ r2.a = r1.a /\ r2.h = r1.h
       /\ \A i \in 1..r1.m : r2.f[i] = r1.f[i]

\* the first reorganize changes the index: it moves an entry of A into D and
\* drops a tombstone
C12_Witness ==
    /\ aux_count >= 1
    /\ Cardinality(LivePos) >= 2
    /\ \E p \in 1..(main_count + aux_count) : deleted(entries[p])
    /\ reorganize(Index).h # head_ptr

\* is some live entry of D and A one that delete_key(k, rid) is to remove
LiveMatch(k, rid) ==
    \E p \in LivePos : entries[p].key = k /\ (rid = None \/ entries[p].rid = rid)

\* C14: search on an index without live entries returns the empty list; a
\* delete_key of a key, or a (key, rid) pair, that has no live entry returns 0 and
\* leaves the header and every entry as they were.
C14_AbsentKey ==
    /\ LivePos = {} =>
          \A k \in 0..(MaxKey + 1) : search(Index, k) = [out |-> << >>, err |-> ""]
    /\ \A k \in 0..(MaxKey + 1), rid \in IdxRids \cup {None} :
          ~LiveMatch(k, rid) => delete_key(Index, k, rid) = [ix |-> Index, removed |-> 0]

\* a key is live under one rid and tombstoned under the other, and some key has
\* no entry at all
C14_Witness ==
    /\ \E k \in Keys, rid \in IdxRids :
          /\ ~LiveMatch(k, rid)
          /\ LiveMatch(k, None)
          /\ \E p \in 1..(main_count + aux_count) :
                deleted(entries[p]) /\ entries[p].key = k /\ entries[p].rid = rid
    /\ \E k \in Keys : ~LiveMatch(k, None)

\* the logical list of an index ix: the positions met from its head, as Follow
RECURSIVE FollowIn(_, _, _, _)
FollowIn(ix, cur, fuel, acc) ==
    IF cur = 0 THEN acc
    ELSE IF fuel = 0 \/ ~((1 <= cur /\ cur <= ix.m) \/ (cur <= -2 /\ -cur - 1 <= ix.a))
    THEN Append(acc, 0)
    ELSE LET p == IF cur > 0 THEN cur ELSE ix.m + (-cur - 1)
         IN FollowIn(ix, ix.f[p].next_ptr, fuel - 1, Append(acc, p))

ListOf(ix) == FollowIn(ix, ix.h, ix.m + ix.a, << >>)

\* the places in the logical list c of the entries delete_key(k, rid) is to remove:
\* every one that matches without a rid, the first one with a rid
ToRemove(c, k, rid) ==
    LET M == {i \in 1..Len(c) :
                 entries[c[i]].key = k /\ (rid = None \/ entries[c[i]].rid = rid)}
    IN IF rid = None \/ M = {} THEN M ELSE {CHOOSE i \in M : \A j \in M : i <= j}

\* C18: delete_key(key, rid) makes a tombstone of the first live entry in logical
\* order with that key and rid and returns 1, or returns 0 if there is none;
\* delete_key(key) makes tombstones of all live entries of the key and returns
\* their number. The entries removed keep key, rid and position with
\* next_ptr = -1, and the logical list afterwards is the list before without
\* them, the others in the order they had.
C18_DeleteKeyEffect ==
    \A k \in 0..(MaxKey + 1), rid \in IdxRids \cup {None} :
        LET r == delete_key(Index, k, rid)
            c == LogicalList
            gone == {c[i] : i \in ToRemove(c, k, rid)}
        IN /\ r.ix.err = ""
           /\ r.removed = Cardinality(ToRemove(c, k, rid))
           /\ r.ix.m = main_count /\ r.ix.a = aux_count
           /\ Len(r.ix.f) = Len(entries)
           /\ \A p \in 1..Len(entries) :
                 /\ r.ix.f[p].key = entries[p].key
                 /\ r.ix.f[p].rid = entries[p].rid
                 /\ deleted(r.ix.f[p]) <=> (deleted(entries[p]) \/ p \in gone)
           /\ ListOf(r.ix) = SelectSeq(c, LAMBDA p : p \notin gone)

\* the same (key, rid) is live twice, one entry in D and one in A, next to a
\* live entry of another key
C18_Witness ==
    \E k \in Keys, rid \in IdxRids :
        /\ \E p \in LivePos, q \in LivePos :
              /\ p <= main_count /\ q > main_count
              /\ entries[p].key = k /\ entries[p].rid = rid
              /\ entries[q].key = k /\ entries[q].rid = rid
        /\ \E p \in LivePos : entries[p].key # k

\* C19: for every key, search returns the same rids in the same order right
\* before and right after a reorganize.
C19_SearchStable ==
    \A k \in 0..(MaxKey + 1) :
        search(reorganize(Index), k) = search(Index, k)

\* C20: the keys of D[1..main_count], tombstones included, are non-decreasing by
\* position; lower_bound_D(k) is the first position whose key is >= k, or
\* main_count + 1, and does not decrease as k grows.
C20_DSorted ==
    /\ \A i \in 1..main_count, j \in 1..main_count :
          i < j => entries[i].key <= entries[j].key
    /\ \A k \in 0..(MaxKey + 1) :
          LET lb == _lb(entries, main_count, k)
          IN /\ lb \in 1..(main_count + 1)
             /\ \A p \in 1..(lb - 1) : entries[p].key < k
             /\ lb <= main_count => entries[lb].key >= k
    /\ \A k1 \in 0..(MaxKey + 1), k2 \in 0..(MaxKey + 1) :
          k1 <= k2 => _lb(entries, main_count, k1) <= _lb(entries, main_count, k2)

\* D holds three entries of two keys, a tombstone among them
C20_Witness ==
    /\ main_count >= 3
    /\ entries[1].key < entries[main_count].key
    /\ \E p \in 1..main_count : deleted(entries[p])
    /\ \E p \in 1..(main_count - 1) : entries[p].key = entries[p + 1].key

\* C21: the chain from head_ptr has no cycle and at most main_count + aux_count
\* nodes, so the walks of insert, search, range_search and delete_key come to an
\* end; reorganize stops at end-of-list, never at its cap, and keeps every live
\* entry.
C21_WalksEnd ==
    LET c == LogicalList
        w == reorg_walk(entries, main_count, head_ptr, 0, main_count + aux_count + 8, << >>)
    IN /\ \A i \in 1..Len(c) : c[i] # 0
       /\ \A i \in 1..Len(c), j \in 1..Len(c) : i # j => c[i] # c[j]
       /\ Len(c) <= main_count + aux_count
       /\ w.err = "" /\ ~w.capped
       /\ Len(w.out) = Cardinality(LivePos)
       /\ \A k \in 0..(MaxKey + 1) :
             /\ search(Index, k).err = ""
             /\ range_search(Index, k, MaxKey + 1).err = ""
             /\ \A rid \in IdxRids :
                   insert(Index, k, rid).err = "" /\ delete_key(Index, k, rid).ix.err = ""
             /\ delete_key(Index, k, None).ix.err = ""

\* the chain leads from an entry of D to one of A, past a tombstone of D
C21_Witness ==
    LET c == LogicalList
    IN /\ \E i \in 1..(Len(c) - 1) : c[i] >= 1 /\ c[i] <= main_count /\ c[i + 1] > main_count
       /\ \E p \in 1..main_count : deleted(entries[p])
       /\ Len(c) < main_count + aux_count

\* ====================================================== properties of the heap

RidLess(r1, r2) == r1.page < r2.page \/ (r1.page = r2.page /\ r1.slot < r2.slot)

\* the slots of the directories that are free
FreedRids == {r \in {RID(p, s) : p \in 0..(Len(pages) - 1), s \in 0..3} :
                r.slot < pages[r.page + 1].nslots /\ _read_slot(pages, r.page, r.slot).len = 0}

\* the row a freed slot named: delete leaves off and the bytes there alone
OriginalRow(rid) ==
    unpack_row(pages[rid.page + 1].data[_read_slot(pages, rid.page, rid.slot).off], Schema)

\* C5: iter_rids yields, in page order then slot order, exactly the RIDs returned
\* by an insert and not deleted since.
C5_IterRids ==
    LET r == iter_rids(pages)
    IN /\ SeqToSet(r) = held
       /\ \A i \in 1..Len(r), j \in 1..Len(r) : i < j => RidLess(r[i], r[j])

\* live rows on two pages, behind a freed slot and in a reused one
C5_Witness ==
    /\ Len(pages) = 2
    /\ \E r \in held : r.page = 0
    /\ \E r \in held : r.page = 1
    /\ \E r \in FreedRids : r.page = 0 /\ \E q \in held : q.page = 0 /\ q.slot > r.slot
    /\ \E r \in held : _read_slot(pages, r.page, r.slot).off + _read_slot(pages, r.page, r.slot).len
                          < PAGE_SIZE /\ r.slot = 0

\* C6: every page has HDR_SIZE + nslots*SLOT_SIZE <= data_end <= PAGE_SIZE, every
\* live slot has data_end <= off and off + len <= PAGE_SIZE, and the byte ranges
\* of distinct live slots of a page do not overlap.
C6_PageLayout ==
    \A p \in 1..Len(pages) :
        LET pg == pages[p]
            live == {s \in 1..pg.nslots : pg.slots[s].len # 0}
        IN /\ Len(pg.slots) = pg.nslots
           /\ HDR_SIZE + pg.nslots * SLOT_SIZE <= pg.data_end
           /\ pg.data_end <= PAGE_SIZE
           /\ \A s \in live :
                 pg.data_end <= pg.slots[s].off /\ pg.slots[s].off + pg.slots[s].len <= PAGE_SIZE
           /\ \A s \in live, t \in live :
                 s # t => \/ pg.slots[s].off + pg.slots[s].len <= pg.slots[t].off
                          \/ pg.slots[t].off + pg.slots[t].len <= pg.slots[s].off

\* a page with two live slots, the lower one reused: its row lies below the other's
C6_Witness ==
    \E p \in 1..Len(pages) :
        /\ pages[p].nslots >= 2
        /\ pages[p].slots[1].len # 0
        /\ pages[p].slots[2].len # 0
        /\ pages[p].slots[1].off < pages[p].slots[2].off

\* C7: a slot that held a row and was freed is not handed out again by insert: a
\* read of its RID after any insert fails or returns the row it named.
C7_RidStable ==
    \A rid \in FreedRids, row \in HeapRows :
        LET r == heap_insert(pages, row)
            rd == heap_read(r.hp, rid)
        IN r.err = "" =>
              /\ r.rid # rid
              /\ rd.err # "" \/ rd.row = [_rid |-> rid] @@ OriginalRow(rid)

\* C13: a delete of a RID that names no live row (a slot past the directory, a
\* slot already free, a page the file does not have, any RID on an empty file)
\* returns false, raises nothing and leaves the file as it was.
C13_DeleteAbsent ==
    \A rid \in HeapRids :
        rid \notin SeqToSet(iter_rids(pages)) =>
            heap_delete(pages, rid) = [hp |-> pages, ret |-> FALSE, err |-> ""]

\* a row whose blob is len bytes long (len >= 9): ncols, null bits, id, nombre
RowOfLen(len) == [id |-> IntVal(1), nombre |-> Text("a", len - 9)]

\* the free bytes of the last page as an insert counts them
LastFree ==
    LET pg == pages[Len(pages)]
        reuse == \E s \in 1..pg.nslots : pg.slots[s].len = 0
    IN pg.data_end - (HDR_SIZE + (pg.nslots + (IF reuse THEN 0 ELSE 1)) * SLOT_SIZE)

\* C17: a row whose blob is as long as the free bytes of the last page is stored
\* in the last page, one a byte longer in a newly appended page; every row with
\* len + HDR_SIZE + SLOT_SIZE <= PAGE_SIZE is stored after at most one new page;
\* a longer row fails with ValueError (row too large) and the file stays as it is.
C17_PageFit ==
    /\ Len(pages) >= 1 /\ LastFree >= 9 =>
          /\ LET r == heap_insert(pages, RowOfLen(LastFree))
             IN r.err = "" /\ r.rid.page = Len(pages) - 1 /\ Len(r.hp) = Len(pages)
          /\ LastFree + 1 + HDR_SIZE + SLOT_SIZE <= PAGE_SIZE =>
                LET r == heap_insert(pages, RowOfLen(LastFree + 1))
                IN r.err = "" /\ r.rid = RID(Len(pages), 0) /\ Len(r.hp) = Len(pages) + 1
    /\ \A len \in {9, ShortLen, LongLen, PAGE_SIZE - HDR_SIZE - SLOT_SIZE} :
          LET r == heap_insert(pages, RowOfLen(len))
          IN /\ r.err = ""
             /\ Len(r.hp) <= Len(pages) + 1
             /\ heap_read(r.hp, r.rid) = [row |-> [_rid |-> r.rid] @@ RowOfLen(len), err |-> ""]
    /\ \A len \in {PAGE_SIZE - HDR_SIZE - SLOT_SIZE + 1, PAGE_SIZE} :
          heap_insert(pages, RowOfLen(len)) = [hp |-> pages, rid |-> None, err |-> "ValueError"]

\* the last of two pages has a freed slot next to a live one and room for a row
C17_Witness ==
    /\ Len(pages) >= 2
    /\ LastFree >= 9
    /\ \E s \in 1..pages[Len(pages)].nslots : pages[Len(pages)].slots[s].len = 0
    /\ \E s \in 1..pages[Len(pages)].nslots : pages[Len(pages)].slots[s].len # 0

\* ====================================================== properties of the executor

\* C8: after any sequence of executor inserts and deletes, every RID that the
\* index's search or range_search returns names a live heap slot, and select_eq
\* and select_between on the indexed column raise nothing.
C8_IndexNamesLiveRows ==
    /\ \A k \in Keys :
          LET sr == search(Index, k)
          IN /\ sr.err = ""
             /\ \A i \in 1..Len(sr.out) : heap_read(pages, sr.out[i]).err = ""
             /\ exec_select_eq(pages, Index, key_col, IntVal(k)).err = ""
    /\ \A lo \in Keys, hi \in Keys :
          LET rr == range_search(Index, lo, hi)
          IN /\ rr.err = ""
             /\ \A i \in 1..Len(rr.out) : heap_read(pages, rr.out[i].rid).err = ""
             /\ exec_select_between(pages, Index, key_col, IntVal(lo), IntVal(hi)).err = ""

\* the bounds a select_between on nombre is given
NameBounds == {Text("a", 0), Text("a", ExecLen), Text("b", ExecLen)}

\* C15: select_between(col, hi, lo) returns the same rows in the same order as
\* select_between(col, lo, hi), on the index path (range_search) and on the
\* full-scan path (scan_range).
C15_BoundSymmetry ==
    /\ \A lo \in 0..(MaxKey + 1), hi \in 0..(MaxKey + 1) :
          lo < hi =>
             /\ range_search(Index, hi, lo) = range_search(Index, lo, hi)
             /\ exec_select_between(pages, Index, key_col, IntVal(hi), IntVal(lo))
                   = exec_select_between(pages, Index, key_col, IntVal(lo), IntVal(hi))
             /\ scan_range(pages, key_col, IntVal(hi), IntVal(lo))
                   = scan_range(pages, key_col, IntVal(lo), IntVal(hi))
    /\ \A lo \in NameBounds, hi \in NameBounds :
          lo # hi /\ val_le(lo, hi) =>
             exec_select_between(pages, Index, "nombre", hi, lo)
                = exec_select_between(pages, Index, "nombre", lo, hi)

\* two rows of different id and different nombre are stored and found, by the
\* index and by the scan, with the bounds given either way round
C15_Witness ==
    LET byid == exec_select_between(pages, Index, key_col, IntVal(MaxKey), IntVal(1))
        byname == exec_select_between(pages, Index, "nombre", Text("b", ExecLen), Text("a", 0))
    IN /\ byid.err = ""
       /\ Len(byid.rows) >= 2
       /\ byid.rows[1].id # byid.rows[Len(byid.rows)].id
       /\ Len(byname.rows) >= 2
       /\ byname.rows[1].nombre # byname.rows[2].nombre

\* ====================================================== properties of the codec

\* the row with its missing columns set to null
Normalize(row, schema) ==
    [name \in {schema[i].name : i \in 1..Len(schema)} |-> row_get(row, name)]

\* every VARCHAR(N) value of the row has at most N bytes
FitsVarchar(row, schema) ==
    \A i \in 1..Len(schema) :
        schema[i].typ.kind = "VARCHAR" /\ row_get(row, schema[i].name) # Null
            => row_get(row, schema[i].name).n <= schema[i].typ.max

\* the row with its missing columns set to null and every VARCHAR(N) value cut
\* to its first N bytes
Truncated(row, schema) ==
    [name \in {schema[i].name : i \in 1..Len(schema)} |->
        LET typ == schema[CHOOSE i \in 1..Len(schema) : schema[i].name = name].typ
            val == row_get(row, name)
        IN IF typ.kind = "VARCHAR" /\ val # Null /\ val.n > typ.max
           THEN Text(val.c, typ.max) ELSE val]

C22_DeleteAll ==
    \A k \in Keys :
        LET before == scan_eq(pages, key_col, IntVal(k))
            r == exec_delete(pages, Index, key_col, IntVal(k))
        IN /\ r.err = ""
           /\ r.cnt = Len(before)
           /\ exec_select_eq(r.hp, r.ix, key_col, IntVal(k)) = [rows |-> << >>, err |-> ""]
           /\ scan_eq(r.hp, key_col, IntVal(k)) = << >>

\* C23: after any sequence of executor inserts and of deletes on the indexed
\* column, freed slots reused or not, select_between(col, lo, hi) through the
\* index returns the same rows, each as often, as scan_range(col, lo, hi) over
\* the heap.
C23_IndexAgreesScan ==
    \A lo \in 0..(MaxKey + 1), hi \in 0..(MaxKey + 1) :
        LET byindex == exec_select_between(pages, Index, key_col, IntVal(lo), IntVal(hi))
            byscan == scan_range(pages, key_col, IntVal(lo), IntVal(hi))
        IN /\ byindex.err = ""
           /\ Len(byindex.rows) = Len(byscan)
           /\ \A row \in SeqToSet(byindex.rows) \cup SeqToSet(byscan) :
                 Cardinality({i \in 1..Len(byindex.rows) : byindex.rows[i] = row})
                    = Cardinality({i \in 1..Len(byscan) : byscan[i] = row})

\* a freed slot was reused (the row of the first slot of a page does not end at
\* the end of the page), and a range takes some of the live rows and leaves others
C23_Witness ==
    /\ \E p \in 1..Len(pages) :
          /\ pages[p].nslots >= 1
          /\ pages[p].slots[1].len # 0
          /\ pages[p].slots[1].off + pages[p].slots[1].len < PAGE_SIZE
    /\ Len(exec_select_between(pages, Index, key_col, IntVal(1), IntVal(1)).rows) >= 1
    /\ Len(scan_range(pages, key_col, IntVal(1), IntVal(1)))
          < Len(scan_range(pages, key_col, IntVal(0), IntVal(MaxKey)))

====
